---- MODULE Spec2Model ----
(***************************************************************************)
(* Model of the GPU memory estimator of package llm (PredictServerFit and *)
(* EstimateGPULayers) and of extractFromZipFile of package server.        *)
(* Memory sizes are small naturals standing for bytes; the arithmetic and *)
(* the comparisons are those of the source.                               *)
(***************************************************************************)
EXTENDS Integers, Sequences, FiniteSets, TLC

\* ------------------------------------------------------------------ bounds
MaxGpus == 2
MaxBlocks == 2
MaxGroups == 2

\* multimodal models require at least 2048 context
CtxFloor == 2048

\* ----------------------------------------------------------------- helpers
Max(a, b) == IF a >= b THEN a ELSE b

Min(a, b) == IF a <= b THEN a ELSE b

RECURSIVE SumSeq(_)
SumSeq(s) == IF s = << >> THEN 0 ELSE Head(s) + SumSeq(Tail(s))

RemoveAt(s, pos) == SubSeq(s, 1, pos - 1) \o SubSeq(s, pos + 1, Len(s))

\* the map lookup "v, ok := layers[name]"
Has(layers, name) == name \in DOMAIN layers

\* fmt.Sprintf("blk.%d", i): the key of block i in the layers map
BlkKey(i) == <<"blk", i>>

TensorKey(name) == <<name, 0>>

\* strconv.Itoa for n >= 0: the decimal digits, most significant first
DigitChars == <<"0", "1", "2", "3", "4", "5", "6", "7", "8", "9">>

RECURSIVE Itoa(_)
Itoa(n) ==
    IF n < 10 THEN <<DigitChars[n + 1]>>
    ELSE Itoa(n \div 10) \o <<DigitChars[(n % 10) + 1]>>

\* strings.Join(elems, sep) over strings held as sequences of characters
RECURSIVE Join(_, _)
Join(elems, sep) ==
    IF elems = << >> THEN << >>
    ELSE IF Len(elems) = 1 THEN elems[1]
    ELSE elems[1] \o sep \o Join(Tail(elems), sep)

\* ----------------------------------------------- external collaborators
\* projectorMemoryRequirements: a projector is held as its byte cost
projectorMemoryRequirements(projector) == projector

\* ggml.GraphSize(context, batch): the (partial, full) pair the model reports
GraphSize(ggml, context, batch) == ggml.graph

\* --------------------------------------------------- EstimateGPULayers
\* lines 103-108: projector overhead and the context floor
ProjectorSize(projectors) ==
    SumSeq([k \in 1..Len(projectors) |-> projectorMemoryRequirements(projectors[k])])

NumCtx(projectors, opts) ==
    IF Len(projectors) > 0 THEN Max(opts.NumCtx, CtxFloor) ELSE opts.NumCtx

\* line 119: fp16 k,v
KvSize(ggml, numCtx) ==
    2 * numCtx * ggml.BlockCount * (ggml.EmbeddingHeadCountK + ggml.EmbeddingHeadCountV)
      * ggml.HeadCountKV

\* lines 110-122: the size of block 0 (0 when missing) plus the cache share
FirstLayerSize(ggml, kv) ==
    (IF Has(ggml.layers, BlkKey(0)) THEN ggml.layers[BlkKey(0)] ELSE 0)
      + (kv \div ggml.BlockCount)

\* mutant of GraphSizes: a group of several devices takes the full graph size
GraphSizes_MultiUsesFull(gpus, ggml, opts, numCtx, kv) ==
    LET gs == GraphSize(ggml, numCtx, Min(numCtx, opts.NumBatch))
        partial == IF gs[1] = 0 THEN (ggml.GQA * kv) \div 6 ELSE gs[1]
        full == IF gs[2] = 0 THEN partial ELSE gs[2]
    IN  IF gpus[1].Library = "metal" THEN [partial |-> full, full |-> full]
        ELSE IF Len(gpus) > 1 THEN [partial |-> full, full |-> full]
        ELSE [partial |-> partial, full |-> full]

\* lines 124-138: graph sizes with their fallbacks and the per-library rules
GraphSizes(gpus, ggml, opts, numCtx, kv) ==
    LET gs == GraphSize(ggml, numCtx, Min(numCtx, opts.NumBatch))
        partial == IF gs[1] = 0 THEN (ggml.GQA * kv) \div 6 ELSE gs[1]
        full == IF gs[2] = 0 THEN partial ELSE gs[2]
    IN  IF gpus[1].Library = "metal" THEN [partial |-> full, full |-> full]
        ELSE IF Len(gpus) > 1 THEN [partial |-> partial, full |-> partial]
        ELSE [partial |-> partial, full |-> full]

\* lines 140-147: output_norm plus output, or token_embd when output is absent
MemoryLayerOutput(ggml) ==
    (IF Has(ggml.layers, TensorKey("output_norm"))
        THEN ggml.layers[TensorKey("output_norm")] ELSE 0)
    + (IF Has(ggml.layers, TensorKey("output"))
        THEN ggml.layers[TensorKey("output")]
        ELSE IF Has(ggml.layers, TensorKey("token_embd"))
        THEN ggml.layers[TensorKey("token_embd")] ELSE 0)

\* mutant of TooLittleMemory: a device exactly at the threshold is dropped
TooLittleMemory_AtThreshold(gpu, gzo, graphMax, layerSize) ==
    gpu.FreeMemory <= gzo + graphMax + gpu.MinimumMemory + 2 * layerSize

\* mutant of TooLittleMemory: room for one layer instead of two
TooLittleMemory_OneLayer(gpu, gzo, graphMax, layerSize) ==
    gpu.FreeMemory < gzo + graphMax + gpu.MinimumMemory + layerSize

\* line 167: the test that drops a device before placement
TooLittleMemory(gpu, gzo, graphMax, layerSize) ==
    gpu.FreeMemory < gzo + graphMax + gpu.MinimumMemory + 2 * layerSize

\* lines 161-173: the devices with space, each charged its minimum and one layer
RECURSIVE FilterGpus(_, _, _, _, _, _)
FilterGpus(gpus, i, c, gpuZeroOverhead, graphMax, layerSize) ==
    IF i > Len(gpus) THEN c
    ELSE LET gzo == IF Len(c.gpusWithSpace) = 0 THEN gpuZeroOverhead ELSE 0
         IN  IF TooLittleMemory(gpus[i], gzo, graphMax, layerSize)
             THEN FilterGpus(gpus, i + 1, c, gpuZeroOverhead, graphMax, layerSize)
             ELSE FilterGpus(gpus, i + 1,
                      [c EXCEPT !.gpusWithSpace = Append(@, i),
                                !.gpuAllocations[i] = @ + gpus[i].MinimumMemory + layerSize],
                      gpuZeroOverhead, graphMax, layerSize)

\* lines 175-179: the projector overhead goes to the first device with space
ChargeGpuZero(c, gpuZeroOverhead) ==
    IF Len(c.gpusWithSpace) > 0
    THEN [c EXCEPT !.gpuAllocations[c.gpusWithSpace[1]] = @ + gpuZeroOverhead]
    ELSE c

\* mutant of Fits: the test negated, a unit is placed where it does not fit
Fits_Negated(gpu, allocated, graphMax, size) ==
    gpu.FreeMemory <= allocated + graphMax + size

\* mutant of Fits: the room kept for the graph is left out of the test
Fits_IgnoresGraph(gpu, allocated, graphMax, size) ==
    gpu.FreeMemory > allocated + size

\* line 199 and line 222: the fit test of one unit on one device
Fits(gpu, allocated, graphMax, size) ==
    gpu.FreeMemory > allocated + graphMax + size

\* the record of one fit test of the block loop: the block, the list of devices
\* with space as it stood, the position tried (from 0), the device there, its
\* running allocation, the block size and the outcome
Attempt(c, i, pos, ok) ==
    [block |-> i, list |-> c.gpusWithSpace, pos |-> pos - 1,
     dev |-> c.gpusWithSpace[pos], allocated |-> c.gpuAllocations[c.gpusWithSpace[pos]],
     size |-> c.layerSize, ok |-> ok]

\* mutant of Distribute: a device that fails stays in the list
RECURSIVE Distribute_KeepsFailed(_, _, _, _, _)
Distribute_KeepsFailed(gpus, c, i, j, graphMax) ==
    IF j = 0 THEN c
    ELSE LET pos == (i % j) + 1
             g == c.gpusWithSpace[pos]
         IN  IF Fits(gpus[g], c.gpuAllocations[g], graphMax, c.layerSize)
             THEN [c EXCEPT !.gpuAllocations[g] = @ + c.layerSize,
                            !.layerCounts[g] = @ + 1,
                            !.layerCount = @ + 1,
                            !.fitTests = @ + 1,
                            !.attempts = Append(@, Attempt(c, i, pos, TRUE))]
             ELSE Distribute_KeepsFailed(gpus,
                      [c EXCEPT !.fitTests = @ + 1,
                                !.attempts = Append(@, Attempt(c, i, pos, FALSE))],
                      i, j - 1, graphMax)

\* mutant of Distribute: every block is tried on the first device of the list
RECURSIVE Distribute_AlwaysFirst(_, _, _, _, _)
Distribute_AlwaysFirst(gpus, c, i, j, graphMax) ==
    IF j = 0 THEN c
    ELSE LET pos == 1
             g == c.gpusWithSpace[pos]
         IN  IF Fits(gpus[g], c.gpuAllocations[g], graphMax, c.layerSize)
             THEN [c EXCEPT !.gpuAllocations[g] = @ + c.layerSize,
                            !.layerCounts[g] = @ + 1,
                            !.layerCount = @ + 1,
                            !.fitTests = @ + 1,
                            !.attempts = Append(@, Attempt(c, i, pos, TRUE))]
             ELSE Distribute_AlwaysFirst(gpus,
                      [c EXCEPT !.gpusWithSpace = RemoveAt(@, pos),
                                !.fitTests = @ + 1,
                                !.attempts = Append(@, Attempt(c, i, pos, FALSE))],
                      i, j - 1, graphMax)

\* lines 196-207: block i over the devices with space; a device that fails
\* is removed and the block is retried on the shorter list
RECURSIVE Distribute(_, _, _, _, _)
Distribute(gpus, c, i, j, graphMax) ==
    IF j = 0 THEN c
    ELSE LET pos == (i % j) + 1
             g == c.gpusWithSpace[pos]
         IN  IF Fits(gpus[g], c.gpuAllocations[g], graphMax, c.layerSize)
             THEN [c EXCEPT !.gpuAllocations[g] = @ + c.layerSize,
                            !.layerCounts[g] = @ + 1,
                            !.layerCount = @ + 1,
                            !.fitTests = @ + 1,
                            !.attempts = Append(@, Attempt(c, i, pos, TRUE))]
             ELSE Distribute(gpus,
                      [c EXCEPT !.gpusWithSpace = RemoveAt(@, pos),
                                !.fitTests = @ + 1,
                                !.attempts = Append(@, Attempt(c, i, pos, FALSE))],
                      i, j - 1, graphMax)

\* line 190: the explicit cap on placed layers
CapReached(opts, layerCount) == opts.NumGPU >= 0 /\ layerCount >= opts.NumGPU

\* lines 183-207: one iteration of the block loop
PlaceBlock(gpus, ggml, opts, c, i, kv, graphMax) ==
    LET size == IF Has(ggml.layers, BlkKey(i))
                THEN ggml.layers[BlkKey(i)] + (kv \div ggml.BlockCount)
                ELSE c.layerSize
        c1 == [c EXCEPT !.layerSize = size, !.memoryWeights = @ + size]
    IN  IF CapReached(opts, c1.layerCount) THEN c1
        ELSE Distribute(gpus, c1, i, Len(c1.gpusWithSpace), graphMax)

\* mutant of PlaceBlocks: the devices dropped for one block are back in the
\* list for the next block
RECURSIVE PlaceBlocks_RestoresList(_, _, _, _, _, _, _)
PlaceBlocks_RestoresList(gpus, ggml, opts, c, i, kv, graphMax) ==
    IF i >= ggml.BlockCount THEN c
    ELSE PlaceBlocks_RestoresList(gpus, ggml, opts,
             [PlaceBlock(gpus, ggml, opts, c, i, kv, graphMax)
                 EXCEPT !.gpusWithSpace = c.gpusWithSpace],
             i + 1, kv, graphMax)

\* lines 182-208: the block loop, i = 0 .. BlockCount-1
RECURSIVE PlaceBlocks(_, _, _, _, _, _, _)
PlaceBlocks(gpus, ggml, opts, c, i, kv, graphMax) ==
    IF i >= ggml.BlockCount THEN c
    ELSE PlaceBlocks(gpus, ggml, opts,
             PlaceBlock(gpus, ggml, opts, c, i, kv, graphMax), i + 1, kv, graphMax)

\* mutant of BlockOverflow: every unplaced block counts for the weights of block 0
BlockOverflow_FirstBlock(ggml, c) ==
    IF c.layerCount >= ggml.BlockCount
    THEN [c EXCEPT !.fullyLoaded = TRUE]
    ELSE [c EXCEPT !.overflow = @ + (ggml.BlockCount - c.layerCount)
                        * (IF Has(ggml.layers, BlkKey(0)) THEN ggml.layers[BlkKey(0)] ELSE 0)]

\* mutant of BlockOverflow: the loop over the unplaced blocks starts one late
BlockOverflow_StartsLate(ggml, c) ==
    IF c.layerCount >= ggml.BlockCount
    THEN [c EXCEPT !.fullyLoaded = TRUE]
    ELSE [c EXCEPT !.overflow = @ + (ggml.BlockCount - c.layerCount - 1) * c.layerSize]

\* lines 209-215: full-load detection and the overflow of the unplaced blocks
BlockOverflow(ggml, c) ==
    IF c.layerCount >= ggml.BlockCount
    THEN [c EXCEPT !.fullyLoaded = TRUE]
    ELSE [c EXCEPT !.overflow = @ + (ggml.BlockCount - c.layerCount) * c.layerSize]

\* lines 219-228: the output layer over the devices with space (no removal)
RECURSIVE DistributeOutput(_, _, _, _, _)
DistributeOutput(gpus, c, j, graphMax, memoryLayerOutput) ==
    IF j = 0 THEN c
    ELSE LET pos == (c.layerCount % j) + 1
             g == c.gpusWithSpace[pos]
         IN  IF Fits(gpus[g], c.gpuAllocations[g], graphMax, memoryLayerOutput)
             THEN [c EXCEPT !.gpuAllocations[g] = @ + memoryLayerOutput,
                            !.layerCounts[g] = @ + 1,
                            !.layerCount = @ + 1,
                            !.outputPlaced = TRUE,
                            !.outputDevice = g,
                            !.outputTests = Append(@, g)]
             ELSE DistributeOutput(gpus, [c EXCEPT !.outputTests = Append(@, g)],
                                   j - 1, graphMax, memoryLayerOutput)

\* mutant of ConsiderOutput: the auto sentinel is not let through
ConsiderOutput_CapOnly(opts, layerCount, memoryLayerOutput) ==
    memoryLayerOutput > 0 /\ opts.NumGPU >= 0 /\ layerCount < opts.NumGPU

\* line 218: whether the output layer is considered at all
ConsiderOutput(opts, layerCount, memoryLayerOutput) ==
    memoryLayerOutput > 0 /\ (opts.NumGPU < 0 \/ layerCount < opts.NumGPU)

\* lines 217-234: the output layer and its overflow
PlaceOutput(gpus, ggml, opts, c0, graphMax, memoryLayerOutput) ==
    LET c == [c0 EXCEPT !.listAtOutput = c0.gpusWithSpace,
                        !.allocationsAtOutput = c0.gpuAllocations]
    IN  IF ConsiderOutput(opts, c.layerCount, memoryLayerOutput)
        THEN LET c1 == DistributeOutput(gpus, c, Len(c.gpusWithSpace), graphMax,
                                        memoryLayerOutput)
             IN  IF c1.layerCount < ggml.BlockCount + 1
                 THEN [c1 EXCEPT !.fullyLoaded = FALSE, !.overflow = @ + memoryLayerOutput]
                 ELSE c1
        ELSE c

\* lines 236-251: the graph is charged to every device that holds a layer
GraphOffload(c, graph) == IF c.fullyLoaded THEN graph.full ELSE graph.partial

ChargeGraph(gpus, c, graph) ==
    [c EXCEPT !.gpuAllocations =
        [k \in 1..Len(gpus) |->
            IF c.layerCounts[k] <= 0 THEN c.gpuAllocations[k]
            ELSE c.gpuAllocations[k] + GraphOffload(c, graph)]]

\* mutant of MemoryRequiredPartial: the sum starts at the second device
MemoryRequiredPartial_SkipsFirst(c) == SumSeq(Tail(c.gpuAllocations))

\* lines 254-257
MemoryRequiredPartial(c) == SumSeq(c.gpuAllocations)

\* mutant of TensorSplit: only the devices that hold a layer are listed
TensorSplit_OnlyUsed(gpus, c) ==
    IF Len(gpus) > 1
    THEN Join([k \in 1..Len(SelectSeq(c.layerCounts, LAMBDA n : n > 0)) |->
                  Itoa(SelectSeq(c.layerCounts, LAMBDA n : n > 0)[k])], <<",">>)
    ELSE << >>

\* lines 260-267
TensorSplit(gpus, c) ==
    IF Len(gpus) > 1
    THEN Join([k \in 1..Len(gpus) |-> Itoa(c.layerCounts[k])], <<",">>)
    ELSE << >>

\* lines 150-158: the estimation context before any device is looked at
InitialContext(gpus, layerSize) ==
    [gpusWithSpace |-> << >>,
     gpuAllocations |-> [k \in 1..Len(gpus) |-> 0],
     layerCounts |-> [k \in 1..Len(gpus) |-> 0],
     layerCount |-> 0,
     layerSize |-> layerSize,
     memoryWeights |-> 0,
     overflow |-> 0,
     fullyLoaded |-> FALSE,
     fitTests |-> 0,
     attempts |-> << >>,
     outputPlaced |-> FALSE,
     outputDevice |-> 0,
     outputTests |-> << >>,
     listAtOutput |-> << >>,
     allocationsAtOutput |-> [k \in 1..Len(gpus) |-> 0]]

\* mutant of ReturnedGPUSizes: only the devices that were charged are listed
ReturnedGPUSizes_OnlyUsed(c, zero) ==
    IF zero THEN << >> ELSE SelectSeq(c.gpuAllocations, LAMBDA a : a > 0)

\* lines 278 and 304: GPUSizes is empty in a zero-layer estimate, else the
\* per-device allocations
ReturnedGPUSizes(c, zero) == IF zero THEN << >> ELSE c.gpuAllocations

\* lines 273-305: the estimate handed back.  panicked, eligible, layerCounts,
\* gpuAllocations, overflow, layerSize, fullyLoaded, outputPlaced, fitTests,
\* attempts, outputDevice, outputTests, listAtOutput and allocationsAtOutput
\* are not exported by the source; they record the locals the estimate was
\* built from, the fit tests of the block loop and of the output layer, and
\* the list of devices with space and the allocations as the output layer
\* found them.
MakeEstimate(gpus, opts, c, eligible, graph, kv, memoryLayerOutput) ==
    LET memoryRequiredPartial == MemoryRequiredPartial(c)
        memoryRequiredTotal == memoryRequiredPartial + c.overflow
        zero == gpus[1].Library = "cpu" \/ c.layerCount = 0
    IN  [panicked |-> FALSE,
         Layers |-> IF zero THEN 0 ELSE c.layerCount,
         Graph |-> IF zero THEN 0 ELSE GraphOffload(c, graph),
         VRAMSize |-> IF zero THEN 0 ELSE memoryRequiredPartial,
         TotalSize |-> memoryRequiredTotal,
         TensorSplit |-> IF zero THEN << >> ELSE TensorSplit(gpus, c),
         GPUSizes |-> ReturnedGPUSizes(c, zero),
         inferenceLibrary |-> gpus[1].Library,
         layersRequested |-> opts.NumGPU,
         kv |-> kv,
         memoryWeights |-> c.memoryWeights,
         memoryLayerOutput |-> memoryLayerOutput,
         graphFullOffload |-> graph.full,
         graphPartialOffload |-> graph.partial,
         eligible |-> eligible,
         layerCounts |-> c.layerCounts,
         gpuAllocations |-> c.gpuAllocations,
         overflow |-> c.overflow,
         layerSize |-> c.layerSize,
         fullyLoaded |-> c.fullyLoaded,
         outputPlaced |-> c.outputPlaced,
         fitTests |-> c.fitTests,
         attempts |-> c.attempts,
         outputDevice |-> c.outputDevice,
         outputTests |-> c.outputTests,
         listAtOutput |-> c.listAtOutput,
         allocationsAtOutput |-> c.allocationsAtOutput]

\* line 122 divides by the block count: a model reporting 0 blocks panics there
Panicked(gpus, opts) ==
    [panicked |-> TRUE, Layers |-> 0, Graph |-> 0, VRAMSize |-> 0, TotalSize |-> 0,
     TensorSplit |-> << >>, GPUSizes |-> << >>,
     inferenceLibrary |-> gpus[1].Library, layersRequested |-> opts.NumGPU,
     kv |-> 0, memoryWeights |-> 0, memoryLayerOutput |-> 0,
     graphFullOffload |-> 0, graphPartialOffload |-> 0,
     eligible |-> << >>,
     layerCounts |-> [k \in 1..Len(gpus) |-> 0],
     gpuAllocations |-> [k \in 1..Len(gpus) |-> 0],
     overflow |-> 0, layerSize |-> 0, fullyLoaded |-> FALSE, outputPlaced |-> FALSE,
     fitTests |-> 0, attempts |-> << >>,
     outputDevice |-> 0, outputTests |-> << >>, listAtOutput |-> << >>,
     allocationsAtOutput |-> [k \in 1..Len(gpus) |-> 0]]

\* lines 69-306
EstimateGPULayers(gpus, ggml, projectors, opts) ==
    IF ggml.BlockCount = 0 THEN Panicked(gpus, opts)
    ELSE
    LET projectorSize == ProjectorSize(projectors)
        numCtx == NumCtx(projectors, opts)
        kv == KvSize(ggml, numCtx)
        layerSize == FirstLayerSize(ggml, kv)
        graph == GraphSizes(gpus, ggml, opts, numCtx, kv)
        graphMax == Max(graph.partial, graph.full)
        memoryLayerOutput == MemoryLayerOutput(ggml)
        gpuZeroOverhead == projectorSize
        c1 == FilterGpus(gpus, 1, InitialContext(gpus, layerSize), gpuZeroOverhead,
                         graphMax, layerSize)
        c2 == ChargeGpuZero(c1, gpuZeroOverhead)
        c3 == PlaceBlocks(gpus, ggml, opts, c2, 0, kv, graphMax)
        c4 == BlockOverflow(ggml, c3)
        c5 == PlaceOutput(gpus, ggml, opts, c4, graphMax, memoryLayerOutput)
        c6 == ChargeGraph(gpus, c5, graph)
    IN  MakeEstimate(gpus, opts, c6, c1.gpusWithSpace, graph, kv, memoryLayerOutput)

\* ----------------------------------------------------- PredictServerFit
\* mutant of GroupFits: the test for a positive layer count is missing
GroupFits_NoPositive(ggml, opts, layerCount) ==
    IF opts.NumGPU < 0
    THEN layerCount >= ggml.BlockCount + 1
    ELSE layerCount >= opts.NumGPU

\* lines 22-30: whether the estimate of one group is a complete fit
GroupFits(ggml, opts, layerCount) ==
    IF opts.NumGPU < 0
    THEN layerCount > 0 /\ layerCount >= ggml.BlockCount + 1
    ELSE layerCount > 0 /\ layerCount >= opts.NumGPU

VARIABLES
    allGpus,       \* allGpus.ByLibrary(): the device groups, in enumeration order
    ggml,          \* the model description
    projectors,    \* the projectors, each held as its byte cost
    opts,          \* api.Options: NumCtx, NumBatch, NumGPU
    pc,            \* "loop", "done" or "panicked"
    idx,           \* the position of the range loop over the groups (1-based)
    estimate,      \* the estimate of the group evaluated last
    estimatedVRAM, \* the local of PredictServerFit
    fits,          \* the boolean PredictServerFit returned
    evaluated,     \* the groups EstimateGPULayers was called on, in call order
    returned,      \* what the earlier invocations of PredictServerFit returned
    p,             \* extractFromZipFile: the target directory
    archive,       \* r.File: the names of the entries, in archive order
    zidx,          \* the position of the range loop over the entries (1-based)
    files,         \* the regular files on disk
    dirs,          \* the directories on disk
    zerr,          \* "idle", "running", or the error returned ("nil" for none)
    gpc,           \* parseFromZipFile: the position of each goroutine running it
    digest,        \* the digest argument of each goroutine
    intermediateBlobs, \* the package-level map of line 26
    raced          \* the goroutines whose map write overlapped another's

zipVars == <<p, archive, zidx, files, dirs, zerr>>

blobVars == <<gpc, digest, intermediateBlobs, raced>>

vars == <<allGpus, ggml, projectors, opts, pc, idx, estimate, estimatedVRAM, fits,
          evaluated, returned, zipVars, blobVars>>

inputs == <<allGpus, ggml, projectors, opts>>

NoEstimate == [panicked |-> FALSE, none |-> TRUE]

\* mutant of ReturnFit: a fitting group is remembered and the loop goes on,
\* so that the last fitting group wins
ReturnFit_KeepsLast(e) ==
    /\ GroupFits(ggml, opts, e.Layers)
    /\ fits' = TRUE
    /\ IF idx < Len(allGpus)
       THEN idx' = idx + 1 /\ UNCHANGED pc
       ELSE pc' = "done" /\ UNCHANGED idx

\* lines 23-24 and 27-28: the group fits and the function returns true
ReturnFit(e) ==
    /\ GroupFits(ggml, opts, e.Layers)
    /\ fits' = TRUE
    /\ pc' = "done"
    /\ UNCHANGED idx

\* line 31: the group does not fit and the loop goes on
NextGroup(e) ==
    /\ ~GroupFits(ggml, opts, e.Layers)
    /\ idx' = idx + 1
    /\ UNCHANGED <<pc, fits>>

\* mutant of Iterate: the estimator writes its allocations back into the
\* devices it was handed, lowering their free memory
Iterate_ConsumesMemory ==
    /\ pc = "loop"
    /\ idx <= Len(allGpus)
    /\ LET e == EstimateGPULayers(allGpus[idx], ggml, projectors, opts)
           gpus == allGpus[idx]
       IN  /\ ~e.panicked
           /\ estimate' = e
           /\ estimatedVRAM' = e.VRAMSize
           /\ allGpus' = [allGpus EXCEPT ![idx] =
                  [k \in 1..Len(gpus) |->
                      [gpus[k] EXCEPT !.FreeMemory = @ - e.gpuAllocations[k]]]]
           /\ \/ ReturnFit(e)
              \/ NextGroup(e)
    /\ evaluated' = Append(evaluated, idx)
    /\ UNCHANGED <<ggml, projectors, opts, returned, zipVars, blobVars>>

\* mutant of Iterate: the local keeps the largest VRAMSize seen so far
Iterate_KeepsMax ==
    /\ pc = "loop"
    /\ idx <= Len(allGpus)
    /\ LET e == EstimateGPULayers(allGpus[idx], ggml, projectors, opts)
       IN  /\ ~e.panicked
           /\ estimate' = e
           /\ estimatedVRAM' = Max(estimatedVRAM, e.VRAMSize)
           /\ \/ ReturnFit(e)
              \/ NextGroup(e)
    /\ evaluated' = Append(evaluated, idx)
    /\ UNCHANGED <<inputs, returned, zipVars, blobVars>>

\* lines 18-31: one iteration of the loop over the groups
Iterate ==
    /\ pc = "loop"
    /\ idx <= Len(allGpus)
    /\ LET e == EstimateGPULayers(allGpus[idx], ggml, projectors, opts)
       IN  /\ ~e.panicked
           /\ estimate' = e
           /\ estimatedVRAM' = e.VRAMSize
           /\ \/ ReturnFit(e)
              \/ NextGroup(e)
    /\ evaluated' = Append(evaluated, idx)
    /\ UNCHANGED <<inputs, returned, zipVars, blobVars>>

\* line 32: no group is left
ReturnNoFit ==
    /\ pc = "loop"
    /\ idx > Len(allGpus)
    /\ fits' = FALSE
    /\ pc' = "done"
    /\ UNCHANGED <<inputs, idx, estimate, estimatedVRAM, evaluated, returned, zipVars, blobVars>>

\* line 20 with a model of 0 blocks: line 122 divides by zero, the call panics
\* and nothing is returned
Panic ==
    /\ pc = "loop"
    /\ idx <= Len(allGpus)
    /\ ggml.BlockCount = 0
    /\ evaluated' = Append(evaluated, idx)
    /\ pc' = "panicked"
    /\ UNCHANGED <<inputs, idx, estimate, estimatedVRAM, fits, returned, zipVars, blobVars>>

\* the number of invocations of PredictServerFit that are followed
MaxCalls == 2

\* what an invocation hands back: the two results and the estimate behind them
Returned == [fits |-> fits, estimatedBytes |-> estimatedVRAM, estimate |-> estimate]

\* lines 15-17: the caller invokes PredictServerFit again on the arguments as
\* the earlier invocation left them; the locals start afresh
Reinvoke ==
    /\ pc = "done"
    /\ Len(returned) < MaxCalls - 1
    /\ returned' = Append(returned, Returned)
    /\ pc' = "loop"
    /\ idx' = 1
    /\ estimate' = NoEstimate
    /\ estimatedVRAM' = 0
    /\ fits' = FALSE
    /\ evaluated' = << >>
    /\ UNCHANGED <<inputs, zipVars, blobVars>>

NextAgain == Iterate \/ ReturnNoFit \/ Panic \/ Reinvoke

Next == Iterate \/ ReturnNoFit \/ Panic

\* ------------------------------------------------------------ the inputs
Libraries == {"cuda", "metal", "cpu"}

\* the reservation the backend of a library needs on each of its devices
MinimumOf(lib) == IF lib = "cuda" THEN 1 ELSE 0

FreeChoices == {4, 6, 8, 11}

GpuInfo(lib, free) ==
    [Library |-> lib, FreeMemory |-> free, MinimumMemory |-> MinimumOf(lib)]

\* the groups of n devices of one library
GroupsOf(n, frees) ==
    {[k \in 1..n |-> GpuInfo(lib, f[k])] : lib \in Libraries, f \in [1..n -> frees]}

GpuGroups == UNION {GroupsOf(n, FreeChoices) : n \in 1..MaxGpus}

\* the non-repeating tensors: none, token_embd alone, output_norm and output
HeadShapes ==
    {<< >>,
     <<<<"token_embd", 1>>>>,
     <<<<"output_norm", 1>>, <<"output", 5>>, <<"token_embd", 3>>>>}

HeadKeys(head) == {TensorKey(head[k][1]) : k \in 1..Len(head)}

HeadSizeOf(head, key) ==
    LET k == CHOOSE x \in 1..Len(head) : TensorKey(head[x][1]) = key IN head[k][2]

\* the layers map of a model: the blocks present, with their weights, and the head
LayersOf(present, weights, head) ==
    [key \in {BlkKey(i) : i \in present} \cup HeadKeys(head) |->
        IF key[1] = "blk" THEN weights[key[2] + 1] ELSE HeadSizeOf(head, key)]

Model(blockCount, present, weights, head, graph, heads, gqa) ==
    [BlockCount |-> blockCount,
     EmbeddingHeadCountK |-> heads, EmbeddingHeadCountV |-> 0, HeadCountKV |-> heads,
     GQA |-> gqa,
     graph |-> graph,
     layers |-> LayersOf(present, weights, head)]

BlockWeights == {1, 2}

\* models with full metadata: every block present, no cache geometry, a graph
\* whose partial size exceeds its full size
PlainModels ==
    UNION {{Model(b, 0..(b - 1), w, h, <<2, 1>>, 0, 1) :
                w \in [1..b -> BlockWeights], h \in HeadShapes} :
           b \in 1..MaxBlocks}

\* models with missing metadata: no block at all, an unknown graph size, with
\* or without cache geometry; block 0 absent from the layers map of a model
\* that has cache geometry (so that a layer never has size 0)
DegradedModels ==
    UNION {{Model(b, present, [k \in 1..b |-> 1], <<<<"token_embd", 1>>>>,
                  <<0, 0>>, heads, 3) :
                present \in {0..(b - 1)} \cup (IF heads = 1 THEN {1..(b - 1)} ELSE {})} :
           b \in 0..MaxBlocks, heads \in {0, 1}}

Models == PlainModels \cup DegradedModels

Options == [NumCtx : {1}, NumBatch : {1}, NumGPU : -1..(MaxBlocks + 1)]

ProjectorLists == {<< >>, <<1>>}

TypeInputs ==
    /\ ggml \in Models
    /\ projectors \in ProjectorLists
    /\ opts \in Options

\* extractFromZipFile is not running
ZipIdle ==
    /\ p = <<"d">>
    /\ archive = << >>
    /\ zidx = 1
    /\ files = {}
    /\ dirs = {}
    /\ zerr = "idle"

\* no goroutine is running parseFromZipFile; line 26: the map is empty
BlobsIdle ==
    /\ gpc = << >>
    /\ digest = << >>
    /\ intermediateBlobs = << >>
    /\ raced = {}

Start ==
    /\ pc = "loop"
    /\ idx = 1
    /\ estimate = NoEstimate
    /\ estimatedVRAM = 0
    /\ fits = FALSE
    /\ evaluated = << >>
    /\ returned = << >>
    /\ ZipIdle
    /\ BlobsIdle

\* one call of EstimateGPULayers, reached through PredictServerFit with one group
Init ==
    /\ allGpus \in {<<g>> : g \in GpuGroups}
    /\ TypeInputs
    /\ Start

Spec == Init /\ [][Next]_vars

\* PredictServerFit over zero to MaxGroups groups
FitFrees == {6, 11}

FitGroups == GroupsOf(1, FitFrees) \cup GroupsOf(MaxGpus, {6})

FitModels ==
    {m \in Models :
        /\ \A i \in 0..(m.BlockCount - 1) :
              Has(m.layers, BlkKey(i)) /\ m.layers[BlkKey(i)] = 1
        /\ m.EmbeddingHeadCountK = 0}

InitFit ==
    /\ allGpus \in UNION {[1..n -> FitGroups] : n \in 0..MaxGroups}
    /\ ggml \in FitModels
    /\ projectors = << >>
    /\ opts \in Options
    /\ Start

SpecFit == InitFit /\ [][Next]_vars

\* ------------------------------------------------------------ properties
\* an estimate was returned; gpus is the group it was computed for
HasEstimate == estimate # NoEstimate

EstGpus == allGpus[evaluated[Len(evaluated)]]

\* the output layer of the model was placed on a device
AllPlacedCount == IF estimate.memoryLayerOutput > 0 THEN ggml.BlockCount + 1
                  ELSE ggml.BlockCount

\* C1: in every returned estimate VRAMSize <= TotalSize, with equality exactly
\* when Layers is blockCount + 1 (head size > 0) or blockCount (head size 0).
C1_VramEqualsTotalIffAllPlaced ==
    HasEstimate =>
        /\ estimate.VRAMSize <= estimate.TotalSize
        /\ (estimate.VRAMSize = estimate.TotalSize) <=> (estimate.Layers = AllPlacedCount)

\* C2: in every returned estimate the entries of GPUSizes sum to VRAMSize.
C2_GpuSizesSumToVram ==
    HasEstimate => SumSeq(estimate.GPUSizes) = estimate.VRAMSize

C2_Witness ==
    /\ HasEstimate
    /\ Len(estimate.GPUSizes) = 2
    /\ estimate.GPUSizes[1] > 0
    /\ estimate.GPUSizes[2] > estimate.GPUSizes[1]
    /\ estimate.VRAMSize = estimate.GPUSizes[1] + estimate.GPUSizes[2]

\* the claim's fit criterion of one group, from the group's own estimate
FitsAsClaimed(gpus) ==
    LET e == EstimateGPULayers(gpus, ggml, projectors, opts)
    IN  /\ e.Layers > 0
        /\ \/ opts.NumGPU < 0 /\ e.Layers >= ggml.BlockCount + 1
           \/ opts.NumGPU >= 0 /\ e.Layers >= opts.NumGPU

\* C3: PredictServerFit returns true exactly when some group's estimate has
\* Layers > 0 and Layers >= blockCount + 1 (auto) or Layers >= NumGPU
\* (explicit); an explicit NumGPU of 0 never fits.
C3_FitsIffSomeGroupFits ==
    pc = "done" =>
        /\ fits <=> \E g \in 1..Len(allGpus) : FitsAsClaimed(allGpus[g])
        /\ opts.NumGPU = 0 => ~fits

C3_Witness ==
    /\ pc = "done"
    /\ fits
    /\ Len(allGpus) = 2
    /\ ~FitsAsClaimed(allGpus[1])
    /\ opts.NumGPU > 0

\* the overflow as the claim counts it: the bytes accounted for the blocks
\* that were not placed, plus the head size if a head of size > 0 was not placed
PlacedBlocks == Min(SumSeq(estimate.layerCounts), ggml.BlockCount)

ClaimedOverflow ==
    (ggml.BlockCount - PlacedBlocks) * estimate.layerSize
    + (IF estimate.memoryLayerOutput > 0 /\ ~estimate.outputPlaced
       THEN estimate.memoryLayerOutput ELSE 0)

HeadTried ==
    estimate.memoryLayerOutput > 0 /\ (opts.NumGPU < 0 \/ PlacedBlocks < opts.NumGPU)

AccumulatedOverflow ==
    (ggml.BlockCount - PlacedBlocks) * estimate.layerSize
    + (IF HeadTried /\ ~estimate.outputPlaced THEN estimate.memoryLayerOutput ELSE 0)

RaiseFree(gpus, d, free) ==
    [k \in 1..Len(gpus) |-> IF k = d THEN [gpus[k] EXCEPT !.FreeMemory = free]
                            ELSE gpus[k]]

LayersWithFree(d, free) ==
    EstimateGPULayers(RaiseFree(EstGpus, d, free), ggml, projectors, opts).Layers

\* C5 as stated: raising one device's free memory never lowers Layers, for
\* any number of devices.
C5_MonotoneAnyGroup ==
    HasEstimate =>
        \A d \in 1..Len(EstGpus) : \A free \in FreeChoices :
            free > EstGpus[d].FreeMemory => LayersWithFree(d, free) >= estimate.Layers

\* C5 amended: for a single-device group, raising the device's free memory
\* never lowers Layers.
C5_MonotoneSingleDevice ==
    (HasEstimate /\ Len(EstGpus) = 1) =>
        \A free \in FreeChoices :
            free > EstGpus[1].FreeMemory => LayersWithFree(1, free) >= estimate.Layers

C5_Witness ==
    /\ HasEstimate
    /\ Len(EstGpus) = 1
    /\ estimate.Layers > 0
    /\ \E free \in FreeChoices :
          free > EstGpus[1].FreeMemory /\ LayersWithFree(1, free) > estimate.Layers

\* the representative layer size and the graph size of the claims' thresholds
RepresentativeLayerSize == FirstLayerSize(ggml, estimate.kv)

LargerGraph == Max(estimate.graphPartialOffload, estimate.graphFullOffload)

C6_Threshold(gpu) ==
    LargerGraph + gpu.MinimumMemory
      + 2 * RepresentativeLayerSize * (ggml.BlockCount + 2)

C6_Case ==
    /\ pc = "done"
    /\ HasEstimate
    /\ Len(EstGpus) = 1
    /\ EstGpus[1].Library # "cpu"
    /\ opts.NumGPU < 0
    /\ EstGpus[1].FreeMemory > C6_Threshold(EstGpus[1])

\* C6 as stated: above the threshold a single device takes every block and
\* the head and PredictServerFit returns true, whatever the head size,
\* projector overhead and block sizes.
C6_SingleDeviceAboveThresholdFits ==
    C6_Case => (estimate.Layers = ggml.BlockCount + 1 /\ fits)

\* C6 amended: above the threshold, and provided projector overhead + the
\* sizes of all blocks + head size is at most layerSize x (2 x blockCount + 3),
\* a single device takes every block and the head (if its size is > 0), and
\* PredictServerFit returns true exactly when the head size is > 0.
C6_Bounded ==
    ProjectorSize(projectors) + estimate.memoryWeights + estimate.memoryLayerOutput
        <= RepresentativeLayerSize * (2 * ggml.BlockCount + 3)

C6_AboveThresholdFitsWhenBounded ==
    (C6_Case /\ C6_Bounded) =>
        /\ estimate.Layers = AllPlacedCount
        /\ fits <=> estimate.memoryLayerOutput > 0

C6_Witness ==
    /\ C6_Case
    /\ C6_Bounded
    /\ ggml.BlockCount = 2
    /\ projectors # << >>
    /\ estimate.Layers = 3
    /\ fits

\* C7: a device whose free memory is below larger graph + its minimum + 2 x
\* layer size is excluded: no layer, no charge, never a nonzero GPUSizes entry.
C7_SmallDeviceExcluded ==
    HasEstimate =>
        \A i \in 1..Len(EstGpus) :
            EstGpus[i].FreeMemory
                < LargerGraph + EstGpus[i].MinimumMemory + 2 * RepresentativeLayerSize
            => /\ \A k \in 1..Len(estimate.eligible) : estimate.eligible[k] # i
               /\ estimate.layerCounts[i] = 0
               /\ estimate.gpuAllocations[i] = 0
               /\ i <= Len(estimate.GPUSizes) => estimate.GPUSizes[i] = 0

C7_Witness ==
    /\ HasEstimate
    /\ Len(EstGpus) = 2
    /\ EstGpus[1].FreeMemory > 0
    /\ EstGpus[1].FreeMemory
          < LargerGraph + EstGpus[1].MinimumMemory + 2 * RepresentativeLayerSize
    /\ Len(estimate.GPUSizes) = 2
    /\ estimate.GPUSizes[1] = 0
    /\ estimate.GPUSizes[2] > 0

\* reading a TensorSplit back: the pieces between the commas, as integers
RECURSIVE SplitComma(_)
SplitComma(str) ==
    IF \A k \in 1..Len(str) : str[k] # ","
    THEN <<str>>
    ELSE LET k == CHOOSE x \in 1..Len(str) :
                      str[x] = "," /\ \A y \in 1..(x - 1) : str[y] # ","
         IN  <<SubSeq(str, 1, k - 1)>> \o SplitComma(SubSeq(str, k + 1, Len(str)))

IsDigit(ch) == \E d \in 1..10 : DigitChars[d] = ch

DigitValue(ch) == (CHOOSE d \in 1..10 : DigitChars[d] = ch) - 1

RECURSIVE Atoi(_)
Atoi(chars) ==
    IF Len(chars) = 1 THEN DigitValue(chars[1])
    ELSE 10 * Atoi(SubSeq(chars, 1, Len(chars) - 1)) + DigitValue(chars[Len(chars)])

\* a comma-joined list of n integers which are, in order, the numbers counts
IsSplitOf(str, counts) ==
    /\ str # << >>
    /\ LET pieces == SplitComma(str)
       IN  /\ Len(pieces) = Len(counts)
           /\ \A k \in 1..Len(pieces) :
                 /\ pieces[k] # << >>
                 /\ \A x \in 1..Len(pieces[k]) : IsDigit(pieces[k][x])
                 /\ Atoi(pieces[k]) = counts[k]

\* C8 as stated: every estimate of a group of more than one device has a
\* TensorSplit of one integer per device, in device order, summing to Layers;
\* for a single device it is empty.
C8_SplitListsEveryDevice ==
    HasEstimate =>
        IF Len(EstGpus) > 1
        THEN /\ IsSplitOf(estimate.TensorSplit, estimate.layerCounts)
             /\ SumSeq(estimate.layerCounts) = estimate.Layers
        ELSE estimate.TensorSplit = << >>

\* C8 amended: that holds of every estimate with Layers > 0; a zero-layer
\* estimate has an empty TensorSplit also for a group of more than one device.
C8_SplitListsEveryDeviceWhenLayers ==
    HasEstimate =>
        IF Len(EstGpus) > 1 /\ estimate.Layers > 0
        THEN /\ IsSplitOf(estimate.TensorSplit, estimate.layerCounts)
             /\ SumSeq(estimate.layerCounts) = estimate.Layers
        ELSE estimate.TensorSplit = << >>

C8_Witness ==
    /\ HasEstimate
    /\ Len(EstGpus) = 2
    /\ estimate.Layers = 3
    /\ estimate.TensorSplit = <<"2", ",", "1">>
    /\ estimate.layerCounts = <<2, 1>>

\* C9 as stated: the length of GPUSizes is the number of devices of the group.
C9_GpuSizesPerDevice ==
    HasEstimate => Len(estimate.GPUSizes) = Len(EstGpus)

\* C9 amended: the length of GPUSizes is the number of devices of the group
\* in every estimate with Layers > 0, and 0 in a zero-layer estimate.
C9_GpuSizesPerDeviceWhenLayers ==
    HasEstimate =>
        Len(estimate.GPUSizes) = (IF estimate.Layers > 0 THEN Len(EstGpus) ELSE 0)

C9_Witness ==
    /\ HasEstimate
    /\ Len(EstGpus) = 2
    /\ estimate.Layers > 0
    /\ Len(estimate.eligible) = 1
    /\ Len(estimate.GPUSizes) = 2

\* C10: when PredictServerFit returns true, the bytes it returns are the
\* VRAMSize of the earliest group that fits, and the groups evaluated are that
\* group and those before it, no group after it.
C10_FirstFitWins ==
    (pc = "done" /\ fits) =>
        \E k \in 1..Len(allGpus) :
            /\ FitsAsClaimed(allGpus[k])
            /\ \A j \in 1..(k - 1) : ~FitsAsClaimed(allGpus[j])
            /\ estimatedVRAM =
                  EstimateGPULayers(allGpus[k], ggml, projectors, opts).VRAMSize
            /\ evaluated = [i \in 1..k |-> i]

C10_Witness ==
    /\ pc = "done"
    /\ fits
    /\ Len(allGpus) = 2
    /\ FitsAsClaimed(allGpus[1])
    /\ FitsAsClaimed(allGpus[2])
    /\ EstimateGPULayers(allGpus[2], ggml, projectors, opts).VRAMSize # estimatedVRAM
    /\ evaluated = <<1>>

\* EstimateGPULayers on groups of up to MonoGpus devices: a single device with
\* every model, several devices with models that have no head tensor (the
\* output-layer loop plays no part) and blocks of up to three sizes
MonoGpus == 3

MonoBlocks == 3

MonoFrees == {3, 4, 5, 7}

MonoWeights == {1, 2, 3}

HeadlessModels ==
    UNION {{Model(b, 0..(b - 1), w, << >>, <<2, 1>>, 0, 1) : w \in [1..b -> MonoWeights]} :
           b \in 1..MonoBlocks}

InitMono ==
    /\ \/ /\ allGpus \in {<<g>> : g \in GroupsOf(1, FreeChoices)}
          /\ TypeInputs
       \/ /\ allGpus \in {<<g>> : g \in UNION {GroupsOf(n, MonoFrees) : n \in 2..MonoGpus}}
          /\ ggml \in HeadlessModels
          /\ projectors = << >>
          /\ opts \in [NumCtx : {1}, NumBatch : {1}, NumGPU : {-1}]
    /\ Start

SpecMono == InitMono /\ [][Next]_vars

\* C11: when no group fits, PredictServerFit returns false with the VRAMSize of
\* the estimate of the last group evaluated (not the maximum, not the first),
\* every group having been evaluated; that is 0 when the last group placed no
\* layer and when there is no group.
C11_NoFitReturnsLastVram ==
    (pc = "done" /\ ~fits) =>
        /\ evaluated = [i \in 1..Len(allGpus) |-> i]
        /\ IF Len(allGpus) = 0
           THEN estimatedVRAM = 0
           ELSE LET last == EstimateGPULayers(allGpus[Len(allGpus)], ggml, projectors, opts)
                IN  /\ estimatedVRAM = last.VRAMSize
                    /\ last.Layers = 0 => estimatedVRAM = 0

C11_Witness ==
    /\ pc = "done"
    /\ ~fits
    /\ Len(allGpus) = 2
    /\ estimatedVRAM > 0
    /\ EstimateGPULayers(allGpus[1], ggml, projectors, opts).VRAMSize > estimatedVRAM

\* the call made on a group whose library is "cpu", or that left no device
\* eligible
C12_Case ==
    /\ evaluated # << >>
    /\ \/ EstGpus[1].Library = "cpu"
       \/ HasEstimate /\ estimate.eligible = << >>

\* C12: for a "cpu" group, or a group no device of which passes the
\* eligibility filter, EstimateGPULayers returns, without error, an estimate
\* with Layers = 0, VRAMSize = 0, Graph = 0, an empty TensorSplit and no nonzero
\* GPUSizes entry.
C12_CpuOrNoEligibleReturnsZero ==
    C12_Case =>
        /\ pc # "panicked"
        /\ HasEstimate
        /\ estimate.Layers = 0
        /\ estimate.VRAMSize = 0
        /\ estimate.Graph = 0
        /\ estimate.TensorSplit = << >>
        /\ \A k \in 1..Len(estimate.GPUSizes) : estimate.GPUSizes[k] = 0

\* C13: EstimateGPULayers never aborts on missing metadata (block 0 absent, a
\* graph size of (0, 0), a block count of 0): it terminates normally and
\* returns an estimate.
C13_NeverAbortsOnMissingMetadata ==
    evaluated # << >> => (pc # "panicked" /\ HasEstimate)

\* the graph sizes the model reports, after the fallbacks for a reported 0
ReportedPartial ==
    IF ggml.graph[1] = 0 THEN (ggml.GQA * estimate.kv) \div 6 ELSE ggml.graph[1]

ReportedFull == IF ggml.graph[2] = 0 THEN ReportedPartial ELSE ggml.graph[2]

\* C14: for a "metal" group and for any group of more than one device the
\* partial and full graph sizes the estimator uses are equal: the full size on
\* metal, the partial size on a non-metal group of several devices; the graph
\* of an estimate with layers is that size whether or not the model fully loaded.
C14_GraphSizesEqual ==
    HasEstimate =>
        /\ EstGpus[1].Library = "metal" =>
              /\ estimate.graphPartialOffload = ReportedFull
              /\ estimate.graphFullOffload = ReportedFull
              /\ estimate.Layers > 0 => estimate.Graph = ReportedFull
        /\ (EstGpus[1].Library # "metal" /\ Len(EstGpus) > 1) =>
              /\ estimate.graphPartialOffload = ReportedPartial
              /\ estimate.graphFullOffload = ReportedPartial
              /\ estimate.Layers > 0 => estimate.Graph = ReportedPartial

C14_Witness ==
    /\ HasEstimate
    /\ EstGpus[1].Library = "cuda"
    /\ Len(EstGpus) = 2
    /\ ReportedPartial = 2
    /\ ReportedFull = 1
    /\ estimate.fullyLoaded
    /\ estimate.Layers = AllPlacedCount
    /\ estimate.Graph = 2

\* EstimateGPULayers on two identical devices with uniform blocks
SplitBlocks == 4

SplitFrees == 4..14

UniformModels ==
    {Model(b, 0..(b - 1), [k \in 1..b |-> w], h, <<2, 1>>, 0, 1) :
        b \in 0..SplitBlocks, w \in BlockWeights, h \in HeadShapes}

InitSplit ==
    /\ allGpus \in {<<<<GpuInfo(lib, f), GpuInfo(lib, f)>>>> :
                        lib \in Libraries, f \in SplitFrees}
    /\ ggml \in UniformModels
    /\ projectors = << >>
    /\ opts \in [NumCtx : {1}, NumBatch : {1}, NumGPU : -1..(SplitBlocks + 1)]
    /\ Start

SpecSplit == InitSplit /\ [][Next]_vars

\* the integers a TensorSplit lists (none for the empty string)
ParsedSplit(str) ==
    IF str = << >> THEN << >>
    ELSE LET pieces == SplitComma(str) IN [k \in 1..Len(pieces) |-> Atoi(pieces[k])]

UniformBlocks ==
    \A i \in 0..(ggml.BlockCount - 1) :
        /\ Has(ggml.layers, BlkKey(i))
        /\ ggml.layers[BlkKey(i)] = ggml.layers[BlkKey(0)]

C16_Case ==
    /\ HasEstimate
    /\ Len(EstGpus) = 2
    /\ EstGpus[1] = EstGpus[2]
    /\ UniformBlocks
    /\ projectors = << >>

\* C16: for two identical devices, uniform block sizes and no projectors, the
\* per-device counts listed in TensorSplit differ by at most one and sum to
\* Layers, whether or not all blocks fit.
C16_IdenticalDevicesSplitEvenly ==
    C16_Case =>
        LET counts == ParsedSplit(estimate.TensorSplit)
        IN  /\ SumSeq(counts) = estimate.Layers
            /\ \A a, b \in 1..Len(counts) :
                  counts[a] - counts[b] <= 1 /\ counts[b] - counts[a] <= 1

C16_Witness ==
    /\ C16_Case
    /\ ggml.BlockCount = 4
    /\ opts.NumGPU < 0
    /\ estimate.Layers = 2
    /\ estimate.TensorSplit = <<"1", ",", "1">>

\* C19: no over-commit: in every returned estimate each GPUSizes entry is at
\* most the device's free memory, and strictly less for every device that
\* holds at least one layer.
C19_NoOverCommit ==
    HasEstimate =>
        \A i \in 1..Len(estimate.GPUSizes) :
            /\ estimate.GPUSizes[i] <= EstGpus[i].FreeMemory
            /\ estimate.layerCounts[i] >= 1 =>
                  estimate.GPUSizes[i] < EstGpus[i].FreeMemory

C19_Witness ==
    /\ HasEstimate
    /\ Len(estimate.GPUSizes) = 2
    /\ projectors # << >>
    /\ estimate.layerCounts[1] >= 1
    /\ estimate.GPUSizes[1] = EstGpus[1].FreeMemory - 1
    /\ estimate.layerCounts[2] = 0
    /\ estimate.GPUSizes[2] > 0

\* the fit tests of the block loop of the estimate, in the order they were made
Attempts == estimate.attempts

FirstAttemptOfBlock(n) == n = 1 \/ Attempts[n - 1].block # Attempts[n].block

\* C20: round-robin with shrink-on-failure.  Block i is first tried at position
\* i mod k of the current list of k devices; the test is free memory > running
\* allocation + larger graph size + block size; a device that fails leaves the
\* list at once, is never back in it and gets no later block; the same block
\* is retried on the shorter list until it is placed or the list is empty.
C20_RoundRobinShrinkOnFailure ==
    HasEstimate =>
        \A n \in 1..Len(Attempts) :
            LET a == Attempts[n]
            IN  /\ a.dev = a.list[a.pos + 1]
                /\ FirstAttemptOfBlock(n) => a.pos = a.block % Len(a.list)
                /\ a.ok <=> EstGpus[a.dev].FreeMemory > a.allocated + LargerGraph + a.size
                /\ (a.ok /\ n < Len(Attempts)) =>
                      /\ Attempts[n + 1].block > a.block
                      /\ Attempts[n + 1].list = a.list
                /\ (~a.ok /\ n < Len(Attempts)) =>
                      /\ Attempts[n + 1].block = a.block
                      /\ Attempts[n + 1].list = RemoveAt(a.list, a.pos + 1)
                /\ (~a.ok /\ n = Len(Attempts)) => Len(a.list) = 1
                /\ ~a.ok =>
                      \A m \in (n + 1)..Len(Attempts) :
                          /\ Attempts[m].dev # a.dev
                          /\ \A k \in 1..Len(Attempts[m].list) : Attempts[m].list[k] # a.dev

C20_Witness ==
    /\ HasEstimate
    /\ Len(EstGpus) = 3
    /\ \E n \in 1..Len(Attempts) : \E m \in 1..Len(Attempts) :
          /\ n + 1 < m
          /\ ~Attempts[n].ok
          /\ Attempts[n].pos = 1
          /\ Attempts[n + 1].ok
          /\ Attempts[n + 1].block = Attempts[n].block
          /\ Attempts[m].ok
          /\ Attempts[m].block > Attempts[n].block

\* PredictServerFit invoked up to MaxCalls times in a row on the same arguments
AgainGroups ==
    {<<GpuInfo("cuda", 11)>>, <<GpuInfo("metal", 6)>>, <<GpuInfo("cpu", 11)>>,
     <<GpuInfo("cuda", 8), GpuInfo("cuda", 8)>>}

InitAgain ==
    /\ allGpus \in UNION {[1..n -> AgainGroups] : n \in 1..MaxGroups}
    /\ ggml \in FitModels
    /\ projectors \in ProjectorLists
    /\ opts \in Options
    /\ Start

SpecAgain == InitAgain /\ [][NextAgain]_vars

IsAbs(path) == Len(path) >= 2 /\ path[1] = ""

\* filepath.Clean, component by component: "." and empty components go, ".."
\* takes the component before it away, stays at the front of a relative path
\* and goes at the root
RECURSIVE CleanStack(_, _, _)
CleanStack(parts, stack, rooted) ==
    IF parts = << >> THEN stack
    ELSE LET part == Head(parts)
         IN  IF part = "." \/ part = ""
             THEN CleanStack(Tail(parts), stack, rooted)
             ELSE IF part = ".."
             THEN IF stack # << >> /\ stack[Len(stack)] # ".."
                  THEN CleanStack(Tail(parts), SubSeq(stack, 1, Len(stack) - 1), rooted)
                  ELSE IF rooted
                  THEN CleanStack(Tail(parts), stack, rooted)
                  ELSE CleanStack(Tail(parts), Append(stack, ".."), rooted)
             ELSE CleanStack(Tail(parts), Append(stack, part), rooted)

Clean(path) ==
    LET stack == CleanStack(path, << >>, IsAbs(path))
    IN  IF IsAbs(path)
        THEN (IF stack = << >> THEN <<"", "">> ELSE <<"">> \o stack)
        ELSE (IF stack = << >> THEN <<".">> ELSE stack)

\* mutant of IsLocal: only the first component is looked at
IsLocal_FirstComponent(path) ==
    /\ ~IsAbs(path)
    /\ path # <<"">>
    /\ path[1] # ".."

\* filepath.IsLocal: not empty, not absolute, and the cleaned path neither is
\* ".." nor starts with "../"
IsLocal(path) ==
    /\ ~IsAbs(path)
    /\ path # <<"">>
    /\ Clean(path)[1] # ".."

\* filepath.Join(p, name) for two non-empty elements
FilepathJoin(dir, name) == Clean(dir \o name)

\* filepath.Dir
Dir(path) == Clean(SubSeq(path, 1, Len(path) - 1) \o <<"">>)

\* the directory itself and the directories above it
Prefixes(path) == {SubSeq(path, 1, k) : k \in 1..Len(path)}

\* os.MkdirAll(dir) fails when dir or a directory above it is a regular file;
\* the directories above that file are made all the same
MkdirAllFails(dir) == Prefixes(dir) \cap files # {}

MkdirAllMakes(dir) ==
    {d \in Prefixes(dir) : Prefixes(d) \cap files = {}}

\* os.Create(n) fails when n is a directory
CreateFails(n) == n \in dirs

\* line 96-97: the entry at hand, and the path it is to be written at
ZipEntry == archive[zidx]

ZipRunning == zerr = "running" /\ zidx <= Len(archive)

\* lines 97-99: the name of the entry is not local
RejectInsecure ==
    /\ ZipRunning
    /\ ~IsLocal(ZipEntry)
    /\ zerr' = "ErrInsecurePath"
    /\ UNCHANGED <<p, archive, zidx, files, dirs>>

\* lines 101-104: the directory of the entry cannot be made
FailMkdirAll ==
    /\ ZipRunning
    /\ IsLocal(ZipEntry)
    /\ LET n == FilepathJoin(p, ZipEntry)
       IN  /\ MkdirAllFails(Dir(n))
           /\ dirs' = dirs \cup MkdirAllMakes(Dir(n))
    /\ zerr' = "ENOTDIR"
    /\ UNCHANGED <<p, archive, zidx, files>>

\* lines 107-110: the file of the entry cannot be created
FailCreate ==
    /\ ZipRunning
    /\ IsLocal(ZipEntry)
    /\ LET n == FilepathJoin(p, ZipEntry)
       IN  /\ ~MkdirAllFails(Dir(n))
           /\ CreateFails(n)
           /\ dirs' = dirs \cup Prefixes(Dir(n))
    /\ zerr' = "EISDIR"
    /\ UNCHANGED <<p, archive, zidx, files>>

\* lines 101-129: the entry is written and the loop goes on
ExtractEntry ==
    /\ ZipRunning
    /\ IsLocal(ZipEntry)
    /\ LET n == FilepathJoin(p, ZipEntry)
       IN  /\ ~MkdirAllFails(Dir(n))
           /\ ~CreateFails(n)
           /\ dirs' = dirs \cup Prefixes(Dir(n))
           /\ files' = files \cup {n}
    /\ zidx' = zidx + 1
    /\ UNCHANGED <<p, archive, zerr>>

\* line 132: every entry was written
ReturnNil ==
    /\ zerr = "running"
    /\ zidx > Len(archive)
    /\ zerr' = "nil"
    /\ UNCHANGED <<p, archive, zidx, files, dirs>>

ZipStep == RejectInsecure \/ FailMkdirAll \/ FailCreate \/ ExtractEntry \/ ReturnNil

estimatorVars == <<allGpus, ggml, projectors, opts, pc, idx, estimate, estimatedVRAM,
                   fits, evaluated, returned>>

NextZip ==
    \/ RejectInsecure /\ UNCHANGED <<estimatorVars, blobVars>>
    \/ FailMkdirAll /\ UNCHANGED <<estimatorVars, blobVars>>
    \/ FailCreate /\ UNCHANGED <<estimatorVars, blobVars>>
    \/ ExtractEntry /\ UNCHANGED <<estimatorVars, blobVars>>
    \/ ReturnNil /\ UNCHANGED <<estimatorVars, blobVars>>

\* the archives: up to MaxEntries entries, their names of up to three
\* components among "..", "a" and "b", or ".", the empty name, an absolute
\* name and a name with a trailing separator
MaxEntries == 2

EntryNames ==
    UNION {[1..n -> {"..", "a", "b"}] : n \in 1..3}
        \cup {<<".">>, <<"">>, <<"", "a">>, <<"a", "">>}

TargetDirs == {<<"", "t", "d">>, <<"d">>}

\* PredictServerFit is not running
EstimatorIdle ==
    /\ allGpus = << >>
    /\ ggml = Model(1, {0}, <<1>>, << >>, <<2, 1>>, 0, 1)
    /\ projectors = << >>
    /\ opts = [NumCtx |-> 1, NumBatch |-> 1, NumGPU |-> -1]
    /\ pc = "idle"
    /\ idx = 1
    /\ estimate = NoEstimate
    /\ estimatedVRAM = 0
    /\ fits = FALSE
    /\ evaluated = << >>
    /\ returned = << >>

\* extractFromZipFile called on an existing, empty target directory
InitZip ==
    /\ p \in TargetDirs
    /\ archive \in UNION {[1..n -> EntryNames] : n \in 0..MaxEntries}
    /\ zidx = 1
    /\ files = {}
    /\ dirs = Prefixes(p)
    /\ zerr = "running"
    /\ EstimatorIdle
    /\ BlobsIdle

SpecZip == InitZip /\ [][NextZip]_vars

\* a path of the file system below the target directory
InsideTarget(f) ==
    /\ Len(f) > Len(p)
    /\ SubSeq(f, 1, Len(p)) = p
    /\ \A k \in (Len(p) + 1)..Len(f) : f[k] \notin {"..", ".", ""}

ZipReturned == zerr \notin {"idle", "running"}

HasDotDot(name) == \E k \in 1..Len(name) : name[k] = ".."

\* the path of entry k below the target directory
EntryPath(k) == FilepathJoin(p, archive[k])

ProperPrefix(a, b) == Len(a) < Len(b) /\ SubSeq(b, 1, Len(a)) = a

\* C17 as stated: no file is created outside p; an archive with an entry
\* whose name is not local makes the call return ErrInsecurePath; an entry
\* whose name has ".." but stays local is written at its cleaned path inside p.
C17_InsecureRejectedLocalWritten ==
    /\ \A f \in files : InsideTarget(f)
    /\ ZipReturned =>
          /\ (\E k \in 1..Len(archive) : ~IsLocal(archive[k])) => zerr = "ErrInsecurePath"
          /\ (\A k \in 1..Len(archive) : IsLocal(archive[k])) =>
                \A k \in 1..Len(archive) :
                    HasDotDot(archive[k]) => EntryPath(k) \in files

\* C17 amended: no file is created outside p.  The entries are handled in
\* archive order up to the first that fails; every entry before it is local and
\* is written at its cleaned path inside p, and nothing else is written.  The
\* call returns ErrInsecurePath when that entry is not local, and a file-system
\* error when it is local but its cleaned path is p itself or a directory made
\* for an earlier entry, or lies below the file of an earlier entry.
C17_NoFileOutsideFirstFailureStops ==
    /\ \A f \in files : InsideTarget(f)
    /\ zerr # "idle" =>
          /\ \A k \in 1..(zidx - 1) :
                IsLocal(archive[k]) /\ EntryPath(k) \in files /\ InsideTarget(EntryPath(k))
          /\ files = {EntryPath(k) : k \in 1..(zidx - 1)}
    /\ zerr = "nil" => zidx = Len(archive) + 1
    /\ zerr = "ErrInsecurePath" => ~IsLocal(archive[zidx])
    /\ zerr \in {"EISDIR", "ENOTDIR"} =>
          /\ IsLocal(archive[zidx])
          /\ \/ EntryPath(zidx) = p
             \/ \E k \in 1..(zidx - 1) : ProperPrefix(EntryPath(zidx), EntryPath(k))
             \/ \E k \in 1..(zidx - 1) : ProperPrefix(EntryPath(k), EntryPath(zidx))

C17_Witness ==
    /\ zerr = "ErrInsecurePath"
    /\ p = <<"", "t", "d">>
    /\ archive = << <<"a", "..", "b">>, <<"a", "..", "..">> >>
    /\ files = {<<"", "t", "d", "b">>}

\* C18: when extractFromZipFile returns ErrInsecurePath the target directory
\* holds no extracted file.
C18_InsecureLeavesNoFile ==
    zerr = "ErrInsecurePath" => files = {}

\* a device that, as the output layer found it, had free memory exceeding its
\* running allocation plus the larger graph size plus the head size
CanHoldOutput(g) ==
    EstGpus[g].FreeMemory
        > estimate.allocationsAtOutput[g] + LargerGraph + estimate.memoryLayerOutput

\* C21: when the head is attempted it is placed whenever at least one device
\* still in the eligible list can hold it; only if there is none is the
\* full-load flag cleared and the head size added to the overflow.
C21_HeadPlacedWheneverSomeDeviceFits ==
    (HasEstimate /\ HeadTried) =>
        /\ estimate.outputPlaced <=>
              \E k \in 1..Len(estimate.listAtOutput) :
                  CanHoldOutput(estimate.listAtOutput[k])
        /\ ~estimate.outputPlaced =>
              (~estimate.fullyLoaded /\ estimate.overflow >= estimate.memoryLayerOutput)

\* what device i was charged apart from the graph: its pre-charge if it was
\* eligible, the blocks the fit tests put on it, the head if it went there
PlacedBlockBytes(i) ==
    SumSeq([n \in 1..Len(Attempts) |->
               IF Attempts[n].ok /\ Attempts[n].dev = i THEN Attempts[n].size ELSE 0])

IsEligible(i) == \E k \in 1..Len(estimate.eligible) : estimate.eligible[k] = i

ChargeBeforeGraph(i) ==
    (IF IsEligible(i)
     THEN EstGpus[i].MinimumMemory + RepresentativeLayerSize
          + (IF estimate.eligible[1] = i THEN ProjectorSize(projectors) ELSE 0)
     ELSE 0)
    + PlacedBlockBytes(i)
    + (IF estimate.outputDevice = i THEN estimate.memoryLayerOutput ELSE 0)

\* every block, and the head when its size is > 0, is on a device
LoadedCompletely ==
    /\ PlacedBlocks = ggml.BlockCount
    /\ estimate.memoryLayerOutput > 0 => estimate.outputPlaced

GraphAsClaimed ==
    IF LoadedCompletely THEN estimate.graphFullOffload ELSE estimate.graphPartialOffload

\* C22: a device with at least one layer is charged the graph once, a device
\* with none is not charged it; the amount, and the Graph field, is the full
\* size exactly when every block and the head (size > 0) were placed, the
\* partial size otherwise, also when an explicit cap stopped before the head.
C22_GraphChargedOncePerUsedDevice ==
    (HasEstimate /\ estimate.Layers > 0) =>
        /\ \A i \in 1..Len(EstGpus) :
              estimate.GPUSizes[i] =
                  ChargeBeforeGraph(i)
                  + (IF estimate.layerCounts[i] >= 1 THEN GraphAsClaimed ELSE 0)
        /\ estimate.Graph = GraphAsClaimed

\* the threshold of device i: the projector overhead if no device before it is
\* eligible, the larger graph size, its minimum and two representative layers
EligibilityThreshold(i) ==
    (IF \A k \in 1..(i - 1) : ~IsEligible(k) THEN ProjectorSize(projectors) ELSE 0)
    + LargerGraph + EstGpus[i].MinimumMemory + 2 * RepresentativeLayerSize

\* C23 as stated: the eligibility threshold is strict: a device is eligible only if its
\* free memory is strictly greater than its threshold; a device whose free
\* memory equals the threshold is dropped and pre-charged nothing.
C23_EligibilityStrict ==
    HasEstimate =>
        \A i \in 1..Len(EstGpus) :
            /\ IsEligible(i) => EstGpus[i].FreeMemory > EligibilityThreshold(i)
            /\ EstGpus[i].FreeMemory = EligibilityThreshold(i) =>
                  (~IsEligible(i) /\ estimate.gpuAllocations[i] = 0)

\* what an eligible device is charged before any layer is placed
PreCharge(i) ==
    EstGpus[i].MinimumMemory + RepresentativeLayerSize
    + (IF estimate.eligible[1] = i THEN ProjectorSize(projectors) ELSE 0)

\* C23 amended: a device is eligible exactly when its free memory is at least
\* its threshold; a device whose free memory equals the threshold is eligible
\* and pre-charged its minimum and one layer (and the projector overhead if it
\* is the first); a device below the threshold is dropped and charged nothing.
C23_EligibleFromThresholdOn ==
    HasEstimate =>
        \A i \in 1..Len(EstGpus) :
            /\ IsEligible(i) <=> EstGpus[i].FreeMemory >= EligibilityThreshold(i)
            /\ IsEligible(i) => estimate.gpuAllocations[i] >= PreCharge(i)
            /\ (IsEligible(i) /\ estimate.layerCounts[i] = 0) =>
                  estimate.gpuAllocations[i] = PreCharge(i)
            /\ ~IsEligible(i) => estimate.gpuAllocations[i] = 0

C23_Witness ==
    /\ HasEstimate
    /\ Len(EstGpus) = 2
    /\ projectors # << >>
    /\ EstGpus[1].FreeMemory < EligibilityThreshold(1)
    /\ EstGpus[2].FreeMemory = EligibilityThreshold(2)
    /\ estimate.eligible = <<2>>
    /\ estimate.gpuAllocations[1] = 0
    /\ estimate.gpuAllocations[2] > 0

\* the size the block loop accounts for block i: its weights plus the cache
\* share, or the size of the block before it when it is missing from the model
RECURSIVE SizeOfBlock(_)
SizeOfBlock(i) ==
    IF Has(ggml.layers, BlkKey(i))
    THEN ggml.layers[BlkKey(i)] + (estimate.kv \div ggml.BlockCount)
    ELSE IF i = 0 THEN RepresentativeLayerSize ELSE SizeOfBlock(i - 1)

\* C24: with an explicit cap (NumGPU >= 0) Layers <= NumGPU, blocks and head
\* together; the blocks after the cap are still sized, and what is not placed
\* (blocks and head) is counted in the overflow, so that TotalSize covers the
\* whole model.
C24_CapBoundsLayersTotalCoversModel ==
    (HasEstimate /\ opts.NumGPU >= 0) =>
        /\ estimate.Layers <= opts.NumGPU
        /\ SumSeq(estimate.layerCounts) <= opts.NumGPU
        /\ estimate.memoryWeights =
              SumSeq([k \in 1..ggml.BlockCount |-> SizeOfBlock(k - 1)])
        /\ estimate.TotalSize = SumSeq(estimate.gpuAllocations) + ClaimedOverflow

\* the part of the overflow that stands for the blocks that were not placed
BlockPartOfOverflow ==
    estimate.overflow
    - (IF HeadTried /\ ~estimate.outputPlaced THEN estimate.memoryLayerOutput ELSE 0)

\* C25 as stated: when not every block was placed, the block part of the overflow is
\* (blockCount - placed blocks) x the representative layer size (the weights
\* of block 0 plus the cache share), also when the blocks differ in size.
C25_OverflowUsesRepresentativeSize ==
    (HasEstimate /\ PlacedBlocks < ggml.BlockCount) =>
        BlockPartOfOverflow = (ggml.BlockCount - PlacedBlocks) * RepresentativeLayerSize

\* C25 amended: when not every block was placed, the block part of the
\* overflow is (blockCount - placed blocks) x the size accounted for the last
\* block of the model (its weights plus the cache share).
C25_OverflowUsesLastBlockSize ==
    (HasEstimate /\ PlacedBlocks < ggml.BlockCount) =>
        BlockPartOfOverflow =
            (ggml.BlockCount - PlacedBlocks) * SizeOfBlock(ggml.BlockCount - 1)

C25_Witness ==
    /\ HasEstimate
    /\ estimate.Layers = 1
    /\ ggml.BlockCount = 2
    /\ RepresentativeLayerSize = 1
    /\ SizeOfBlock(1) = 2
    /\ estimate.memoryLayerOutput > 0
    /\ estimate.overflow = 2 + estimate.memoryLayerOutput

\* the fit tests of the block loop that placed a block, and those that failed
PlacingTests == Len(SelectSeq(Attempts, LAMBDA a : a.ok))

FailingTests == Len(SelectSeq(Attempts, LAMBDA a : ~a.ok))

PlacedBlockSet == {Attempts[n].block : n \in {k \in 1..Len(Attempts) : Attempts[k].ok}}

\* C27: the placed blocks are a prefix 0..m-1 of the blocks: once a block is
\* left unplaced no later block is placed; the head is placed only if every
\* block was; hence Layers = blockCount + 1 exactly when every block and the
\* head are on a device (a "cpu" group puts nothing on a device).
C27_PlacedBlocksArePrefix ==
    HasEstimate =>
        /\ PlacedBlockSet = 0..(Cardinality(PlacedBlockSet) - 1)
        /\ estimate.outputPlaced => PlacedBlockSet = 0..(ggml.BlockCount - 1)
        /\ estimate.Layers = ggml.BlockCount + 1 <=>
              /\ EstGpus[1].Library # "cpu"
              /\ PlacedBlockSet = 0..(ggml.BlockCount - 1)
              /\ estimate.outputPlaced

C27_Witness ==
    /\ HasEstimate
    /\ Len(EstGpus) = 3
    /\ ggml.BlockCount = 3
    /\ SizeOfBlock(1) = 3
    /\ SizeOfBlock(2) = 1
    /\ PlacedBlockSet = {0}
    /\ FailingTests = 3

WholeModelResident(gpus) ==
    LET e == EstimateGPULayers(gpus, ggml, projectors, opts)
    IN  /\ e.Layers > 0
        /\ e.TotalSize = e.VRAMSize

\* C29: under the auto sentinel (NumGPU < 0) PredictServerFit returns true
\* exactly when some group's estimate has Layers > 0 and no overflow
\* (TotalSize = VRAMSize), and the bytes returned with true are that group's
\* TotalSize; models whose head size is 0 included.
C29_AutoFitsIffWholeModelResident ==
    (pc = "done" /\ opts.NumGPU < 0) =>
        /\ fits <=> \E g \in 1..Len(allGpus) : WholeModelResident(allGpus[g])
        /\ fits => estimatedVRAM = estimate.TotalSize

\* ------------------------------------------- parseFromZipFile, concurrently
\* parseFromZipFile of server/model.go run by up to MaxGoroutines goroutines
\* at once (one per create request). Each goroutine extracts and converts its
\* own archive in its own temporary directory; the only state they share is
\* the package-level map intermediateBlobs, written at line 207. A Go map
\* write is not atomic: it is modelled as a step that begins it and a step
\* that ends it. Two writes that overlap are a data race, whose outcomes are
\* a nondeterministic choice: the entry is stored, the entry is lost, or the
\* runtime throws "concurrent map writes" and the process dies.
MaxGoroutines == 2

Goroutines == 1..MaxGoroutines

\* the digests of the uploaded archives
Digests == {"sha256:a", "sha256:b"}

\* line 189: the digest of the converted layer, a function of the archive
LayerDigest(d) == IF d = "sha256:a" THEN "sha256:x" ELSE "sha256:y"

\* m[k] = v of a Go map
MapAssign(m, k, v) == [x \in DOMAIN m \cup {k} |-> IF x = k THEN v ELSE m[x]]

\* the goroutines that are inside the map write of line 207
Writing == {g \in DOMAIN gpc : gpc[g] = "writing"}

\* mutant of BeginWrite: the write is guarded by a mutex, a goroutine waits
\* while another one is writing
BeginWrite_Locked(g) ==
    /\ gpc[g] = "converted"
    /\ Writing = {}
    /\ gpc' = [gpc EXCEPT ![g] = "writing"]
    /\ UNCHANGED <<digest, intermediateBlobs, raced>>

\* lines 136-144: the temporary directory cannot be made or the extraction
\* fails, the function returns the error
ExtractFails(g) ==
    /\ gpc[g] = "start"
    /\ gpc' = [gpc EXCEPT ![g] = "error"]
    /\ UNCHANGED <<digest, intermediateBlobs, raced>>

\* line 142: the archive was extracted
Extracted(g) ==
    /\ gpc[g] = "start"
    /\ gpc' = [gpc EXCEPT ![g] = "extracted"]
    /\ UNCHANGED <<digest, intermediateBlobs, raced>>

\* lines 146-203: one of the conversion steps fails, the function returns
\* the error
ConvertFails(g) ==
    /\ gpc[g] = "extracted"
    /\ gpc' = [gpc EXCEPT ![g] = "error"]
    /\ UNCHANGED <<digest, intermediateBlobs, raced>>

\* lines 146-205: the model was converted and its layer created
Converted(g) ==
    /\ gpc[g] = "extracted"
    /\ gpc' = [gpc EXCEPT ![g] = "converted"]
    /\ UNCHANGED <<digest, intermediateBlobs, raced>>

\* line 207: the map write begins; no lock is taken, so it begins whatever
\* the other goroutines are doing
BeginWrite(g) ==
    /\ gpc[g] = "converted"
    /\ gpc' = [gpc EXCEPT ![g] = "writing"]
    /\ raced' = IF Writing # {} THEN raced \cup Writing \cup {g} ELSE raced
    /\ UNCHANGED <<digest, intermediateBlobs>>

\* lines 207-208: the map write ends and the function returns; a write that
\* overlapped another one may have lost its entry
EndWrite(g) ==
    /\ gpc[g] = "writing"
    /\ gpc' = [gpc EXCEPT ![g] = "returned"]
    /\ \/ intermediateBlobs' = MapAssign(intermediateBlobs, digest[g], LayerDigest(digest[g]))
       \/ g \in raced /\ UNCHANGED intermediateBlobs
    /\ UNCHANGED <<digest, raced>>

\* line 207: the runtime detects the overlapping writes and throws
\* "concurrent map writes", which ends the process
Throw(g) ==
    /\ gpc[g] = "writing"
    /\ g \in raced
    /\ gpc' = [h \in DOMAIN gpc |-> "fatal"]
    /\ UNCHANGED <<digest, intermediateBlobs, raced>>

NextBlobs ==
    \/ \E g \in DOMAIN gpc : ExtractFails(g) /\ UNCHANGED <<estimatorVars, zipVars>>
    \/ \E g \in DOMAIN gpc : Extracted(g) /\ UNCHANGED <<estimatorVars, zipVars>>
    \/ \E g \in DOMAIN gpc : ConvertFails(g) /\ UNCHANGED <<estimatorVars, zipVars>>
    \/ \E g \in DOMAIN gpc : Converted(g) /\ UNCHANGED <<estimatorVars, zipVars>>
    \/ \E g \in DOMAIN gpc : BeginWrite(g) /\ UNCHANGED <<estimatorVars, zipVars>>
    \/ \E g \in DOMAIN gpc : EndWrite(g) /\ UNCHANGED <<estimatorVars, zipVars>>
    \/ \E g \in DOMAIN gpc : Throw(g) /\ UNCHANGED <<estimatorVars, zipVars>>

\* MaxGoroutines calls of parseFromZipFile are started, the map is empty
InitBlobs ==
    /\ gpc = [g \in Goroutines |-> "start"]
    /\ digest \in [Goroutines -> Digests]
    /\ intermediateBlobs = << >>
    /\ raced = {}
    /\ EstimatorIdle
    /\ ZipIdle

SpecBlobs == InitBlobs /\ [][NextBlobs]_vars

\* C30: concurrent invocations of parseFromZipFile never write the map
\* intermediateBlobs at the same time, and once all of them have returned the
\* map holds the digest -> layer-digest entry of each.
C30_MapWritesNeverConcurrent ==
    /\ Cardinality(Writing) <= 1
    /\ (\A g \in DOMAIN gpc : gpc[g] = "returned") =>
           \A g \in DOMAIN gpc :
               /\ Has(intermediateBlobs, digest[g])
               /\ intermediateBlobs[digest[g]] = LayerDigest(digest[g])

====
